---- MODULE Spec2Model ----
(***************************************************************************)
(* A model of the schema Kind registry (package schema: Kind.Validate,     *)
(* Kind.String, Kind.ValidateValueType, Kind.ValidateValue,                *)
(* Kind.ValidKeyKind, KindForGoValue, Kind.MarshalJSON/UnmarshalJSON and   *)
(* the kindStrings table) and of the appdata conformance Simulator         *)
(* (package appdatatest: Simulator.Initialize, Simulator.ProcessBlockData, *)
(* Simulator.BlockDataGenN).                                               *)
(*                                                                         *)
(* SpecKind drives the Kind functions over bounded inputs; Spec drives the *)
(* Simulator against a listener whose callbacks may fail; SpecGen drives   *)
(* the block generator (SpecGenFair: under fair random draws); SpecKey     *)
(* applies the key binary encoding that the                                *)
(* integer kinds document.                                                 *)
(***************************************************************************)
EXTENDS Integers, Sequences, FiniteSets, TLC

VARIABLES
    t,            \* the caller's Kind variable (receiver of the Kind methods)
    kindStrings,  \* the package-level name -> Kind table
    call,         \* the last Kind function call: its inputs and what it returned
    kpc,          \* "idle" between calls, "done" when call holds a result
    blockNum,     \* Simulator.blockNum
    options,      \* SimulatorOptions: which listener callbacks are set, EventAlignedWrites
    pc,           \* position inside the running Simulator method ("idle": none runs)
    data,         \* the BlockData argument of the running ProcessBlockData
    idx,          \* index in data of the packet the range loop is at
    pending,      \* modules ScanModuleSchemas has not visited yet
    applied,      \* the updates statesim.App.ApplyUpdate accepted since the last call began
    observed,     \* the listener callbacks invoked since the last call began, with results
    session,      \* the listener's session state, as the callbacks invoked so far drive it
    lastHeight,   \* the height of the last StartBlock the listener saw (0: none yet)
    caller,       \* the caller's view: calls made, the last call and its result
    gen,          \* the block generator of BlockDataGenN and the draw it is producing
    enc           \* two values of an integer kind and their key binary encodings

kindVars == <<t, kindStrings, call, kpc>>
simVars == <<blockNum, options, pc, data, idx, pending, applied, observed, session,
             lastHeight, caller>>
vars == <<t, kindStrings, call, kpc, blockNum, options, pc, data, idx, pending, applied,
          observed, session, lastHeight, caller, gen, enc>>

---------------------------------------------------------------------------
(* Bounds of the model *)

\* Kind identifiers tried below InvalidKind and above ListKind.
ExtraKinds == 2
\* Longest string enumerated exhaustively over Alphabet.
MaxStrLen == 2
\* Most Simulator method calls in one behaviour.
MaxCalls == 3
\* Most packets in one BlockData.
MaxPackets == 2
\* Largest maxUpdatesPerBlock passed to BlockDataGenN: one more than the
\* distinct updateSet keys that UpdateGen can draw.
MaxUpdatesPerBlock == 5

---------------------------------------------------------------------------
(* The Kind enumeration (iota order) *)

InvalidKind == 0
StringKind == 1
BytesKind == 2
Int8Kind == 3
Uint8Kind == 4
Int16Kind == 5
Uint16Kind == 6
Int32Kind == 7
Uint32Kind == 8
Int64Kind == 9
Uint64Kind == 10
IntegerStringKind == 11
DecimalStringKind == 12
BoolKind == 13
TimeKind == 14
DurationKind == 15
Float32Kind == 16
Float64Kind == 17
AddressKind == 18
EnumKind == 19
JSONKind == 20
UIntNKind == 21
IntNKind == 22
StructKind == 23
OneOfKind == 24
ListKind == 25

MAX_VALID_KIND == JSONKind

\* Kind is a Go int: any integer can be converted to a Kind.
KindInputs == (InvalidKind - ExtraKinds) .. (ListKind + ExtraKinds)

\* The nil error.
Nil == "nil"

---------------------------------------------------------------------------
(* Kind.Validate *)

ValidateNoUpperBound(k) ==
    IF k <= InvalidKind THEN "unknown type" ELSE Nil

Validate(k) ==
    IF k <= InvalidKind THEN "unknown type"
    ELSE IF k > JSONKind THEN "invalid type"
    ELSE Nil

---------------------------------------------------------------------------
(* Kind.String *)

StringSharedName(k) ==
    CASE k = StringKind -> "string"
      [] k = BytesKind -> "bytes"
      [] k = Int8Kind -> "int8"
      [] k = Uint8Kind -> "uint8"
      [] k = Int16Kind -> "int16"
      [] k = Uint16Kind -> "uint16"
      [] k = Int32Kind -> "int32"
      [] k = Uint32Kind -> "uint32"
      [] k = Int64Kind -> "int64"
      [] k = Uint64Kind -> "uint64"
      [] k = DecimalStringKind -> "decimal"
      [] k = IntegerStringKind -> "integer"
      [] k = BoolKind -> "bool"
      [] k = TimeKind -> "time"
      [] k = DurationKind -> "time"
      [] k = Float32Kind -> "float32"
      [] k = Float64Kind -> "float64"
      [] k = AddressKind -> "address"
      [] k = EnumKind -> "enum"
      [] k = JSONKind -> "json"
      [] OTHER -> "invalid(" \o ToString(k) \o ")"

String(k) ==
    CASE k = StringKind -> "string"
      [] k = BytesKind -> "bytes"
      [] k = Int8Kind -> "int8"
      [] k = Uint8Kind -> "uint8"
      [] k = Int16Kind -> "int16"
      [] k = Uint16Kind -> "uint16"
      [] k = Int32Kind -> "int32"
      [] k = Uint32Kind -> "uint32"
      [] k = Int64Kind -> "int64"
      [] k = Uint64Kind -> "uint64"
      [] k = DecimalStringKind -> "decimal"
      [] k = IntegerStringKind -> "integer"
      [] k = BoolKind -> "bool"
      [] k = TimeKind -> "time"
      [] k = DurationKind -> "duration"
      [] k = Float32Kind -> "float32"
      [] k = Float64Kind -> "float64"
      [] k = AddressKind -> "address"
      [] k = EnumKind -> "enum"
      [] k = JSONKind -> "json"
      [] OTHER -> "invalid(" \o ToString(k) \o ")"

---------------------------------------------------------------------------
(* The kindStrings table and func init() *)

\* m[name] = k: a Go map assignment, which overwrites an existing entry.
MapAssign(m, name, k) ==
    [n \in (DOMAIN m) \cup {name} |-> IF n = name THEN k ELSE m[n]]

RECURSIVE InitLoop(_, _)
InitLoop(i, m) ==
    IF i <= MAX_VALID_KIND
    THEN InitLoop(i + 1, MapAssign(m, String(i), i))
    ELSE m

\* var kindStrings = map[string]Kind{}, then the loop of init().
EmptyMap == [n \in {} |-> InvalidKind]
KindStringsAtStart == InitLoop(InvalidKind + 1, EmptyMap)

---------------------------------------------------------------------------
(* encoding/json as Kind.MarshalJSON and Kind.UnmarshalJSON use it.       *)
(* A JSON text is modelled by its top-level token: [tok, str], where str   *)
(* is the decoded content of a string token and "" otherwise.              *)

JSONString(s) == [tok |-> "string", str |-> s]
JSONOther(tok) == [tok |-> tok, str |-> ""]

\* json.Marshal of a Go string: a JSON string token holding it.
JSONMarshalString(s) == JSONString(s)

\* json.Unmarshal(data, &s) for s of type string, s being "" before the call:
\* a string token is stored, null leaves s alone and is no error, every other
\* token and a malformed text are errors.
JSONUnmarshalString(d) ==
    CASE d.tok = "string" -> [err |-> Nil, s |-> d.str]
      [] d.tok = "null" -> [err |-> Nil, s |-> ""]
      [] d.tok = "malformed" -> [err |-> "invalid character", s |-> ""]
      [] OTHER -> [err |-> "cannot unmarshal into Go value of type string", s |-> ""]

\* Kind.MarshalJSON: [err, out].
MarshalJSON(k) ==
    IF Validate(k) # Nil
    THEN [err |-> Validate(k), out |-> JSONOther("none")]
    ELSE [err |-> Nil, out |-> JSONMarshalString(String(k))]

\* Kind.UnmarshalJSON on *t = cur with table m: [err, t].
UnmarshalJSONAssignsOnError(cur, m, d) ==
    LET r == JSONUnmarshalString(d) IN
    IF r.err # Nil THEN [err |-> r.err, t |-> InvalidKind]
    ELSE IF r.s \notin DOMAIN m THEN [err |-> "invalid kind", t |-> InvalidKind]
    ELSE [err |-> Nil, t |-> m[r.s]]

UnmarshalJSON(cur, m, d) ==
    LET r == JSONUnmarshalString(d) IN
    IF r.err # Nil THEN [err |-> r.err, t |-> cur]
    ELSE IF r.s \notin DOMAIN m THEN [err |-> "invalid kind", t |-> cur]
    ELSE [err |-> Nil, t |-> m[r.s]]

---------------------------------------------------------------------------
(* Native (Go) values: [type, v].  type is the dynamic type of the         *)
(* interface{} value, v its content as a sequence of integers (the bytes   *)
(* of a string, []byte or json.RawMessage; one number for a scalar).       *)

Val(ty, v) == [type |-> ty, v |-> v]

\* The host types the Kind switch statements name.
DeclaredTypes ==
    {"string", "[]byte", "int8", "uint8", "int16", "uint16", "int32", "uint32",
     "int64", "uint64", "float32", "float64", "bool", "time.Time",
     "time.Duration", "json.RawMessage"}

\* Other dynamic types a caller can pass: the nil interface, the platform
\* integers, a named string type, a pointer and the []interface{} of the
\* unimplemented kinds.
OtherTypes == {"nil", "int", "uint", "schema.Kind", "namedString", "*string", "[]interface{}"}

HostTypes == DeclaredTypes \cup OtherTypes

\* x.(T) of a non-interface type T succeeds exactly on the dynamic type T.
TypeAssert(value, ty) == value.type = ty

---------------------------------------------------------------------------
(* regexp: the subset of RE2 syntax IntegerFormat and DecimalFormat use.   *)
(* Ends(r, s, P) is the set of offsets at which a match of r that starts    *)
(* at an offset in P can end.                                               *)

Class(set) == [op |-> "class", set |-> set]
Concat(parts) == [op |-> "concat", parts |-> parts]
Optional(r) == [op |-> "optional", r |-> r]
\* set{min,max}: a repetition of a character class.
Repeat(set, min, max) == [op |-> "repeat", set |-> set, min |-> min, max |-> max]
BeginText == [op |-> "begin"]
EndText == [op |-> "end"]

Digits == 48 .. 57

RECURSIVE Ends(_, _, _)
RECURSIVE ConcatEnds(_, _, _, _)

ConcatEnds(parts, i, s, P) ==
    IF i > Len(parts) THEN P
    ELSE ConcatEnds(parts, i + 1, s, Ends(parts[i], s, P))

\* From offset p, every run of min..max bytes of the class.
RepeatEnds(r, s, p) ==
    {p + n : n \in {m \in r.min .. r.max :
                        /\ p + m <= Len(s)
                        /\ \A i \in (p + 1) .. (p + m) : s[i] \in r.set}}

Ends(r, s, P) ==
    CASE r.op = "class" -> {p + 1 : p \in {q \in P : q < Len(s) /\ s[q + 1] \in r.set}}
      [] r.op = "concat" -> ConcatEnds(r.parts, 1, s, P)
      [] r.op = "optional" -> P \cup Ends(r.r, s, P)
      [] r.op = "repeat" -> UNION {RepeatEnds(r, s, p) : p \in P}
      [] r.op = "begin" -> P \cap {0}
      [] r.op = "end" -> P \cap {Len(s)}

\* Regexp.Match: an unanchored search; ^ and $ (no m flag) anchor at the
\* beginning and the end of the text.
RegexpMatch(r, s) == Ends(r, s, 0 .. Len(s)) # {}

\* The digit limits written in IntegerFormat and DecimalFormat.
IntegerMaxDigits == 100
DecimalMaxDigits == 50
ExponentMaxDigits == 2

IntegerFormatOffByOne ==
    Concat(<<BeginText, Optional(Class({45})),
             Repeat(Digits, 1, IntegerMaxDigits - 1), EndText>>)

\* `^-?[0-9]{1,100}$`
IntegerFormat ==
    Concat(<<BeginText, Optional(Class({45})),
             Repeat(Digits, 1, IntegerMaxDigits), EndText>>)

\* `^-?[0-9]{1,50}(\.[0-9]{1,50})?([eE][-+]?[0-9]{1,2})?$`
DecimalFormat ==
    Concat(<<BeginText, Optional(Class({45})),
             Repeat(Digits, 1, DecimalMaxDigits),
             Optional(Concat(<<Class({46}), Repeat(Digits, 1, DecimalMaxDigits)>>)),
             Optional(Concat(<<Class({69, 101}), Optional(Class({45, 43})),
                               Repeat(Digits, 1, ExponentMaxDigits)>>)),
             EndText>>)

integerRegex == IntegerFormat
decimalRegex == DecimalFormat

---------------------------------------------------------------------------
(* unicode/utf8 as Kind.ValidateValue uses it *)

\* The size of the sequence a first byte starts and the range its second
\* byte must be in (utf8's first/acceptRanges tables); size 0: no valid
\* first byte.
First(b) ==
    CASE b < 128 -> [size |-> 1, lo |-> 0, hi |-> 0]
      [] b \in 194 .. 223 -> [size |-> 2, lo |-> 128, hi |-> 191]
      [] b = 224 -> [size |-> 3, lo |-> 160, hi |-> 191]
      [] b \in 225 .. 236 -> [size |-> 3, lo |-> 128, hi |-> 191]
      [] b = 237 -> [size |-> 3, lo |-> 128, hi |-> 159]
      [] b \in 238 .. 239 -> [size |-> 3, lo |-> 128, hi |-> 191]
      [] b = 240 -> [size |-> 4, lo |-> 144, hi |-> 191]
      [] b \in 241 .. 243 -> [size |-> 4, lo |-> 128, hi |-> 191]
      [] b = 244 -> [size |-> 4, lo |-> 128, hi |-> 143]
      [] OTHER -> [size |-> 0, lo |-> 0, hi |-> 0]

\* Whether a whole valid sequence starts at s[i].
SequenceAt(s, i) ==
    LET f == First(s[i]) IN
    /\ f.size > 0
    /\ i + f.size - 1 <= Len(s)
    /\ f.size >= 2 => s[i + 1] \in f.lo .. f.hi
    /\ \A j \in (i + 2) .. (i + f.size - 1) : s[j] \in 128 .. 191

\* Whether every byte from s[i] on is below utf8.RuneSelf: each is a rune
\* of its own.
ASCIIFrom(s, i) == \A j \in i .. Len(s) : s[j] < 128

RECURSIVE ValidFrom(_, _)
ValidFrom(s, i) ==
    IF ASCIIFrom(s, i) THEN TRUE
    ELSE SequenceAt(s, i) /\ ValidFrom(s, i + First(s[i]).size)

\* utf8.ValidString
ValidString(s) == ValidFrom(s, 1)

\* The rune a sequence of 1..4 bytes encodes.
RuneOf(b) ==
    CASE Len(b) = 1 -> b[1]
      [] Len(b) = 2 -> (b[1] % 32) * 64 + (b[2] % 64)
      [] Len(b) = 3 -> (b[1] % 16) * 4096 + (b[2] % 64) * 64 + (b[3] % 64)
      [] Len(b) = 4 -> (b[1] % 8) * 262144 + (b[2] % 64) * 4096
                         + (b[3] % 64) * 64 + (b[4] % 64)

RuneError == 65533

\* for _, r := range str: the runes the loop visits; an invalid byte yields
\* RuneError and the loop advances by one byte.
RECURSIVE RangeRunes(_, _)
RangeRunes(s, i) ==
    IF ASCIIFrom(s, i) THEN SubSeq(s, i, Len(s))
    ELSE IF SequenceAt(s, i)
         THEN <<RuneOf(SubSeq(s, i, i + First(s[i]).size - 1))>>
                  \o RangeRunes(s, i + First(s[i]).size)
         ELSE <<RuneError>> \o RangeRunes(s, i + 1)

---------------------------------------------------------------------------
(* encoding/json.Valid on the documents the model passes as json.RawMessage *)

\* {} [] "" 0 null and the number 10
ValidDocuments ==
    {<<123, 125>>, <<91, 93>>, <<34, 34>>, <<48>>, <<110, 117, 108, 108>>, <<49, 48>>}

\* the empty text, { [ " - nul and 01
InvalidDocuments ==
    {<<>>, <<123>>, <<91>>, <<34>>, <<45>>, <<110, 117, 108>>, <<48, 49>>}

JSONValid(b) == b \in ValidDocuments

---------------------------------------------------------------------------
(* Kind.ValidateValueType *)

\* _, ok := value.(T); if !ok { return fmt.Errorf("expected T, got %T", value) }
Expect(value, ty) ==
    IF TypeAssert(value, ty) THEN Nil ELSE "expected " \o ty

ValidateValueTypeBytesForJSON(k, value) ==
    CASE k = StringKind -> Expect(value, "string")
      [] k = BytesKind -> Expect(value, "[]byte")
      [] k = Int8Kind -> Expect(value, "int8")
      [] k = Uint8Kind -> Expect(value, "uint8")
      [] k = Int16Kind -> Expect(value, "int16")
      [] k = Uint16Kind -> Expect(value, "uint16")
      [] k = Int32Kind -> Expect(value, "int32")
      [] k = Uint32Kind -> Expect(value, "uint32")
      [] k = Int64Kind -> Expect(value, "int64")
      [] k = Uint64Kind -> Expect(value, "uint64")
      [] k = IntegerStringKind -> Expect(value, "string")
      [] k = DecimalStringKind -> Expect(value, "string")
      [] k = BoolKind -> Expect(value, "bool")
      [] k = TimeKind -> Expect(value, "time.Time")
      [] k = DurationKind -> Expect(value, "time.Duration")
      [] k = Float32Kind -> Expect(value, "float32")
      [] k = Float64Kind -> Expect(value, "float64")
      [] k = AddressKind -> Expect(value, "[]byte")
      [] k = EnumKind -> Expect(value, "string")
      [] k = JSONKind -> Expect(value, "[]byte")
      [] OTHER -> "invalid type"

ValidateValueType(k, value) ==
    CASE k = StringKind -> Expect(value, "string")
      [] k = BytesKind -> Expect(value, "[]byte")
      [] k = Int8Kind -> Expect(value, "int8")
      [] k = Uint8Kind -> Expect(value, "uint8")
      [] k = Int16Kind -> Expect(value, "int16")
      [] k = Uint16Kind -> Expect(value, "uint16")
      [] k = Int32Kind -> Expect(value, "int32")
      [] k = Uint32Kind -> Expect(value, "uint32")
      [] k = Int64Kind -> Expect(value, "int64")
      [] k = Uint64Kind -> Expect(value, "uint64")
      [] k = IntegerStringKind -> Expect(value, "string")
      [] k = DecimalStringKind -> Expect(value, "string")
      [] k = BoolKind -> Expect(value, "bool")
      [] k = TimeKind -> Expect(value, "time.Time")
      [] k = DurationKind -> Expect(value, "time.Duration")
      [] k = Float32Kind -> Expect(value, "float32")
      [] k = Float64Kind -> Expect(value, "float64")
      [] k = AddressKind -> Expect(value, "[]byte")
      [] k = EnumKind -> Expect(value, "string")
      [] k = JSONKind -> Expect(value, "json.RawMessage")
      [] OTHER -> "invalid type"

---------------------------------------------------------------------------
(* Kind.ValidateValue *)

ValidateStringFirstRuneOnly(str) ==
    IF ~ValidString(str) THEN "expected valid utf-8 string"
    ELSE IF str # <<>> /\ RangeRunes(str, 1)[1] = 0
         THEN "expected string without null characters"
         ELSE Nil

\* The StringKind case: utf8.ValidString, then the loop over the runes.
ValidateString(str) ==
    IF ~ValidString(str) THEN "expected valid utf-8 string"
    ELSE IF \E j \in 1 .. Len(RangeRunes(str, 1)) : RangeRunes(str, 1)[j] = 0
         THEN "expected string without null characters"
         ELSE Nil

\* The format switch that follows the type check.
ValidateFormat(k, value) ==
    CASE k = StringKind -> ValidateString(value.v)
      [] k = IntegerStringKind ->
            IF ~RegexpMatch(integerRegex, value.v) THEN "expected base10 integer" ELSE Nil
      [] k = DecimalStringKind ->
            IF ~RegexpMatch(decimalRegex, value.v) THEN "expected decimal number" ELSE Nil
      [] k = JSONKind ->
            IF ~JSONValid(value.v) THEN "expected valid JSON" ELSE Nil
      [] OTHER -> Nil

ValidateValueChecksEnum(k, value) ==
    IF ValidateValueType(k, value) # Nil THEN ValidateValueType(k, value)
    ELSE IF k = EnumKind THEN ValidateString(value.v)
    ELSE ValidateFormat(k, value)

ValidateValue(k, value) ==
    IF ValidateValueType(k, value) # Nil THEN ValidateValueType(k, value)
    ELSE ValidateFormat(k, value)

---------------------------------------------------------------------------
(* Kind.ValidKeyKind *)

ValidKeyKindAllowsJSON(k) ==
    IF k \in {Float32Kind, Float64Kind} THEN FALSE ELSE TRUE

ValidKeyKind(k) ==
    IF k \in {Float32Kind, Float64Kind, JSONKind} THEN FALSE ELSE TRUE

---------------------------------------------------------------------------
(* KindForGoValue *)

KindForGoValueBytesAsAddress(value) ==
    CASE value.type = "string" -> StringKind
      [] value.type = "[]byte" -> AddressKind
      [] value.type = "int8" -> Int8Kind
      [] value.type = "uint8" -> Uint8Kind
      [] value.type = "int16" -> Int16Kind
      [] value.type = "uint16" -> Uint16Kind
      [] value.type = "int32" -> Int32Kind
      [] value.type = "uint32" -> Uint32Kind
      [] value.type = "int64" -> Int64Kind
      [] value.type = "uint64" -> Uint64Kind
      [] value.type = "float32" -> Float32Kind
      [] value.type = "float64" -> Float64Kind
      [] value.type = "bool" -> BoolKind
      [] value.type = "time.Time" -> TimeKind
      [] value.type = "time.Duration" -> DurationKind
      [] value.type = "json.RawMessage" -> JSONKind
      [] OTHER -> InvalidKind

KindForGoValue(value) ==
    CASE value.type = "string" -> StringKind
      [] value.type = "[]byte" -> BytesKind
      [] value.type = "int8" -> Int8Kind
      [] value.type = "uint8" -> Uint8Kind
      [] value.type = "int16" -> Int16Kind
      [] value.type = "uint16" -> Uint16Kind
      [] value.type = "int32" -> Int32Kind
      [] value.type = "uint32" -> Uint32Kind
      [] value.type = "int64" -> Int64Kind
      [] value.type = "uint64" -> Uint64Kind
      [] value.type = "float32" -> Float32Kind
      [] value.type = "float64" -> Float64Kind
      [] value.type = "bool" -> BoolKind
      [] value.type = "time.Time" -> TimeKind
      [] value.type = "time.Duration" -> DurationKind
      [] value.type = "json.RawMessage" -> JSONKind
      [] OTHER -> InvalidKind

---------------------------------------------------------------------------
(* Inputs of the Kind functions *)

\* NUL, newline, + - . 0 1 9 E e a, a continuation byte, a two-byte lead
\* byte and a byte no UTF-8 text holds.
Alphabet == {0, 10, 43, 45, 46, 48, 49, 57, 69, 101, 97, 128, 194, 255}

RECURSIVE SeqsUpTo(_)
SeqsUpTo(n) ==
    IF n = 0 THEN {<<>>}
    ELSE LET shorter == SeqsUpTo(n - 1) IN
         shorter \cup {Append(q, b) : q \in {r \in shorter : Len(r) = n - 1}, b \in Alphabet}

\* n copies of the byte b.
Run(b, n) == [i \in 1 .. n |-> b]

\* Strings built along the number grammars, around their digit limits:
\* sign, integer digits, fraction, exponent, trailing text.
RunLengths ==
    {0, 1, DecimalMaxDigits, DecimalMaxDigits + 1, IntegerMaxDigits, IntegerMaxDigits + 1}
Fractions ==
    {<<>>, <<46>>} \cup {<<46>> \o Run(53, n) : n \in {1, DecimalMaxDigits, DecimalMaxDigits + 1}}
Exponents ==
    {<<>>, <<101>>, <<69, 45>>}
        \cup {<<101>> \o Run(55, n) : n \in {1, ExponentMaxDigits + 1}}
        \cup {<<69, 43>> \o Run(55, ExponentMaxDigits), <<101, 45>> \o Run(55, ExponentMaxDigits)}
GrammarStrings ==
    {sign \o Run(48, n) \o frac \o exp \o tail :
        sign \in {<<>>, <<45>>, <<43>>}, n \in RunLengths, frac \in Fractions,
        exp \in Exponents, tail \in {<<>>, <<10>>}}

\* "0" "-123" "01" "" "-" "+1" "007" "1e5" "1.5E-10" "abc"
NumberSamples ==
    {<<48>>, <<45, 49, 50, 51>>, <<48, 49>>, <<>>, <<45>>, <<43, 49>>, <<48, 48, 55>>,
     <<49, 101, 53>>, <<49, 46, 53, 69, 45, 49, 48>>, <<97, 98, 99>>}

\* Two-, three- and four-byte sequences, with NUL before, between and after
\* them; an overlong NUL, a surrogate, a sequence cut short, a rune above
\* U+10FFFF and stray bytes.
UTF8Samples ==
    {<<195, 169>>, <<226, 130, 172>>, <<240, 159, 152, 128>>, <<244, 143, 191, 191>>,
     <<97, 195, 169, 98>>, <<0, 195, 169>>, <<195, 169, 0>>, <<195, 169, 0, 226, 130, 172>>,
     <<97, 0, 98>>, <<97, 98, 0>>, <<0, 97, 98>>,
     <<192, 128>>, <<224, 128, 128>>, <<237, 160, 128>>, <<237, 159, 191>>,
     <<226, 130>>, <<240, 159, 152>>, <<244, 144, 128, 128>>, <<240, 143, 191, 191>>,
     <<195, 0>>, <<226, 0, 172>>, <<128, 97>>, <<97, 255>>, <<195, 40>>}

Strings == SeqsUpTo(MaxStrLen) \cup GrammarStrings \cup NumberSamples \cup UTF8Samples

ByteSlices == ValidDocuments \cup InvalidDocuments \cup {<<0>>, <<255, 254>>}

ScalarTypes ==
    {"int8", "uint8", "int16", "uint16", "int32", "uint32", "int64", "uint64",
     "float32", "float64", "bool", "time.Time", "time.Duration", "int", "uint",
     "schema.Kind"}

Values ==
    {Val("string", s) : s \in Strings}
        \cup {Val("namedString", s) : s \in NumberSamples}
        \cup {Val(ty, b) : ty \in {"[]byte", "json.RawMessage"}, b \in ByteSlices}
        \cup {Val(ty, <<n>>) : ty \in ScalarTypes, n \in {0, 1}}
        \cup {Val("*string", <<48>>), Val("[]interface{}", <<>>),
              Val("[]interface{}", <<49>>), Val("nil", <<>>)}

\* The names given to UnmarshalJSON: what String renders for every kind
\* tried, and names the table must not hold.
NameInputs ==
    {String(k) : k \in KindInputs}
        \cup {"", "String", "STRING", "Int8", " string", "string ", "str", "uint",
              "uintn", "intn", "struct", "oneof", "list", "invalid", "invalid()"}

JSONInputs ==
    {JSONString(n) : n \in NameInputs}
        \cup {JSONOther(tok) : tok \in {"null", "number", "true", "false", "object",
                                         "array", "malformed"}}

---------------------------------------------------------------------------
(* The Kind functions as operations on the caller's Kind variable t *)

NoValue == Val("nil", <<>>)
NoData == JSONOther("none")

\* A call and its results: err (an error result), kind (a Kind result: the
\* Kind returned, or *t after UnmarshalJSON), str, bool and json results.
Call(op, k, value, d, err, kind, str, bool, json) ==
    [op |-> op, k |-> k, value |-> value, data |-> d, err |-> err, kind |-> kind,
     str |-> str, bool |-> bool, json |-> json]

NoCall == Call("none", InvalidKind, NoValue, NoData, Nil, InvalidKind, "", FALSE, NoData)

KindInit ==
    /\ t \in KindInputs
    /\ kindStrings = KindStringsAtStart
    /\ call = NoCall
    /\ kpc = "idle"

\* No Kind function is called: the state the Simulator runs in.
KindIdle ==
    /\ t = InvalidKind
    /\ kindStrings = KindStringsAtStart
    /\ call = NoCall
    /\ kpc = "idle"

Returns(c) ==
    /\ kpc' = "done"
    /\ call' = c

DoValidate ==
    /\ kpc = "idle"
    /\ Returns(Call("Validate", t, NoValue, NoData, Validate(t), InvalidKind, "", FALSE, NoData))
    /\ UNCHANGED <<t, kindStrings, simVars, gen, enc>>

DoString ==
    /\ kpc = "idle"
    /\ Returns(Call("String", t, NoValue, NoData, Nil, InvalidKind, String(t), FALSE, NoData))
    /\ UNCHANGED <<t, kindStrings, simVars, gen, enc>>

DoValidateValueType ==
    /\ kpc = "idle"
    /\ \E value \in Values :
        /\ Returns(Call("ValidateValueType", t, value, NoData, ValidateValueType(t, value),
                        InvalidKind, "", FALSE, NoData))
        /\ UNCHANGED <<t, kindStrings, simVars, gen, enc>>

DoValidateValue ==
    /\ kpc = "idle"
    /\ \E value \in Values :
        /\ Returns(Call("ValidateValue", t, value, NoData, ValidateValue(t, value),
                        InvalidKind, "", FALSE, NoData))
        /\ UNCHANGED <<t, kindStrings, simVars, gen, enc>>

DoValidKeyKind ==
    /\ kpc = "idle"
    /\ Returns(Call("ValidKeyKind", t, NoValue, NoData, Nil, InvalidKind, "",
                    ValidKeyKind(t), NoData))
    /\ UNCHANGED <<t, kindStrings, simVars, gen, enc>>

DoKindForGoValue ==
    /\ kpc = "idle"
    /\ \E value \in Values :
        /\ Returns(Call("KindForGoValue", t, value, NoData, Nil, KindForGoValue(value),
                        "", FALSE, NoData))
        /\ UNCHANGED <<t, kindStrings, simVars, gen, enc>>

DoMarshalJSON ==
    /\ kpc = "idle"
    /\ Returns(Call("MarshalJSON", t, NoValue, NoData, MarshalJSON(t).err, InvalidKind,
                    "", FALSE, MarshalJSON(t).out))
    /\ UNCHANGED <<t, kindStrings, simVars, gen, enc>>

\* t.UnmarshalJSON(d): call.k is *t before the call, call.kind *t after it.
DoUnmarshalJSON ==
    /\ kpc = "idle"
    /\ \E d \in JSONInputs :
        LET r == UnmarshalJSON(t, kindStrings, d) IN
        /\ Returns(Call("UnmarshalJSON", t, NoValue, d, r.err, r.t, "", FALSE, NoData))
        /\ t' = r.t
        /\ UNCHANGED <<kindStrings, simVars, gen, enc>>

\* The caller goes on to its next call.
KindReturn ==
    /\ kpc = "done"
    /\ kpc' = "idle"
    /\ call' = NoCall
    /\ UNCHANGED <<t, kindStrings, simVars, gen, enc>>

KindNext ==
    \/ DoValidate
    \/ DoString
    \/ DoValidateValueType
    \/ DoValidateValue
    \/ DoValidKeyKind
    \/ DoKindForGoValue
    \/ DoMarshalJSON
    \/ DoUnmarshalJSON
    \/ KindReturn

---------------------------------------------------------------------------
(* The Simulator and its listener *)

\* The modules of options.AppSchema.
Modules == {"bank", "staking"}
\* Object keys an update can target.
Keys == {1}

\* appdata.ObjectUpdateData{ModuleName, Update{Key}} and a packet of another
\* type (appdata.EventData).
ObjectUpdateData(m, k) == [type |-> "ObjectUpdateData", module |-> m, key |-> k]
EventData == [type |-> "EventData", module |-> "", key |-> 0]
NoPacket == [type |-> "none", module |-> "", key |-> 0]
Packets == {ObjectUpdateData(m, k) : m \in Modules, k \in Keys} \cup {EventData}

RECURSIVE BlockDatasOfLen(_)
BlockDatasOfLen(n) ==
    IF n = 0 THEN {<<>>}
    ELSE {Append(d, p) : d \in BlockDatasOfLen(n - 1), p \in Packets}

\* BlockData = []appdata.Packet: any packets, in any order, repeats included.
BlockDatas == UNION {BlockDatasOfLen(n) : n \in 0 .. MaxPackets}

\* What a listener callback or ApplyUpdate can return.
Outcomes == {Nil, "error"}

\* One callback invocation as the listener sees it: the callback, its
\* argument, what it returned, and the session state it arrived in.
Event(cb, height, module, packet, has, err) ==
    [cb |-> cb, height |-> height, module |-> module, packet |-> packet, has |-> has,
     err |-> err, session |-> session, started |-> lastHeight # 0]

\* The session state machine of the change-event protocol.
SessionAfter(s, cb) ==
    CASE cb = "Initialize" -> "Ready"
      [] cb = "StartBlock" -> "InBlock"
      [] cb = "Commit" -> "Ready"
      [] OTHER -> s

\* The callback is invoked and returns err.
Invoke(ev) ==
    /\ observed' = Append(observed, ev)
    /\ session' = SessionAfter(session, ev.cb)
    /\ lastHeight' = IF ev.cb = "StartBlock" THEN ev.height ELSE lastHeight

NotInvoked == UNCHANGED <<observed, session, lastHeight>>

\* The running method returns err to its caller.
Return(err) ==
    /\ pc' = "idle"
    /\ caller' = [caller EXCEPT !.err = err]

\* The caller starts method op.  It keeps to the contract as long as its
\* first call is Initialize, every later call is ProcessBlockData, and it
\* makes no call after one returned an error.
Enter(op) ==
    /\ pc = "idle"
    /\ caller.n < MaxCalls
    /\ caller' = [n |-> caller.n + 1, op |-> op, err |-> "running",
                  blockNum |-> blockNum,
                  disciplined |-> IF op = "Initialize" THEN caller.n = 0
                                  ELSE caller.disciplined /\ caller.n > 0
                                          /\ caller.err = Nil]
    /\ observed' = <<>>
    /\ applied' = <<>>

SimInit ==
    /\ blockNum = 0
    /\ options \in [Initialize : BOOLEAN, InitializeModuleData : BOOLEAN,
                    StartBlock : BOOLEAN, Commit : BOOLEAN,
                    EventAlignedWrites : BOOLEAN]
    /\ pc = "idle"
    /\ data = <<>>
    /\ idx = 0
    /\ pending = {}
    /\ applied = <<>>
    /\ observed = <<>>
    /\ session = "Uninitialized"
    /\ lastHeight = 0
    /\ caller = [n |-> 0, op |-> "none", err |-> Nil, blockNum |-> 0, disciplined |-> TRUE]

\* No Simulator exists: the state the Kind functions run in.
SimIdle ==
    /\ blockNum = 0
    /\ options = [Initialize |-> FALSE, InitializeModuleData |-> FALSE,
                  StartBlock |-> FALSE, Commit |-> FALSE, EventAlignedWrites |-> FALSE]
    /\ pc = "idle"
    /\ data = <<>>
    /\ idx = 0
    /\ pending = {}
    /\ applied = <<>>
    /\ observed = <<>>
    /\ session = "Uninitialized"
    /\ lastHeight = 0
    /\ caller = [n |-> 0, op |-> "none", err |-> Nil, blockNum |-> 0, disciplined |-> TRUE]

---------------------------------------------------------------------------
(* Simulator.Initialize *)

InitializeEnter ==
    /\ Enter("Initialize")
    /\ pc' = "Initialize"
    /\ UNCHANGED <<kindVars, gen, enc, blockNum, options, data, idx, pending, session, lastHeight>>

\* if f := a.options.Listener.Initialize; f != nil { ... }
InitializeCallback ==
    /\ pc = "Initialize"
    /\ IF options.Initialize
       THEN \E err \in Outcomes :
                /\ Invoke(Event("Initialize", 0, "", NoPacket, options.EventAlignedWrites, err))
                /\ IF err # Nil
                   THEN Return(err) /\ UNCHANGED pending
                   ELSE pc' = "ScanModuleSchemas" /\ pending' = Modules /\ UNCHANGED caller
       ELSE /\ NotInvoked
            /\ pc' = "ScanModuleSchemas" /\ pending' = Modules /\ UNCHANGED caller
    /\ UNCHANGED <<kindVars, gen, enc, blockNum, options, data, idx, applied>>

\* A module scan that goes on after a module announcement failed.
InitializeModuleDataKeepsGoing ==
    /\ pc = "ScanModuleSchemas"
    /\ options.InitializeModuleData
    /\ \E m \in pending, err \in Outcomes :
          /\ Invoke(Event("InitializeModuleData", 0, m, NoPacket, FALSE, err))
          /\ pending' = pending \ {m}
          /\ UNCHANGED <<pc, caller>>
    /\ UNCHANGED <<kindVars, gen, enc, blockNum, options, data, idx, applied>>

\* if f := a.options.Listener.InitializeModuleData; f != nil {
\*     err := a.state.ScanModuleSchemas(func(...) error { return f(...) }) ... }
\* ScanModuleSchemas visits every module once, in no fixed order, and stops
\* at the first error.
InitializeModuleData ==
    /\ pc = "ScanModuleSchemas"
    /\ options.InitializeModuleData
    /\ \E m \in pending, err \in Outcomes :
          /\ Invoke(Event("InitializeModuleData", 0, m, NoPacket, FALSE, err))
          /\ pending' = pending \ {m}
          /\ IF err # Nil THEN Return(err) ELSE UNCHANGED <<pc, caller>>
    /\ UNCHANGED <<kindVars, gen, enc, blockNum, options, data, idx, applied>>

\* return nil
InitializeReturn ==
    /\ pc = "ScanModuleSchemas"
    /\ ~options.InitializeModuleData \/ pending = {}
    /\ Return(Nil)
    /\ NotInvoked
    /\ UNCHANGED <<kindVars, gen, enc, blockNum, options, data, idx, pending, applied>>

---------------------------------------------------------------------------
(* Simulator.ProcessBlockData *)

\* A ProcessBlockData that leaves the block counter as it was.
ProcessBlockDataKeepsBlockNum ==
    /\ pc = "idle"
    /\ \E d \in BlockDatas :
        /\ Enter("ProcessBlockData")
        /\ data' = d
        /\ idx' = 1
        /\ pc' = "StartBlock"
        /\ UNCHANGED <<kindVars, gen, enc, blockNum, options, pending, session, lastHeight>>

\* a.blockNum++
ProcessBlockDataEnter ==
    /\ pc = "idle"
    /\ \E d \in BlockDatas :
        /\ Enter("ProcessBlockData")
        /\ blockNum' = blockNum + 1
        /\ data' = d
        /\ idx' = 1
        /\ pc' = "StartBlock"
        /\ UNCHANGED <<kindVars, gen, enc, options, pending, session, lastHeight>>

\* A ProcessBlockData that returns nil at once when StartBlock is unset.
StartBlockUnsetReturns ==
    /\ pc = "StartBlock"
    /\ IF options.StartBlock
       THEN \E err \in Outcomes :
                /\ Invoke(Event("StartBlock", blockNum, "", NoPacket, FALSE, err))
                /\ IF err # Nil THEN Return(err) ELSE pc' = "SendPacket" /\ UNCHANGED caller
       ELSE /\ NotInvoked
            /\ Return(Nil)
    /\ UNCHANGED <<kindVars, gen, enc, blockNum, options, data, idx, pending, applied>>

\* if f := a.options.Listener.StartBlock; f != nil { ... }
StartBlock ==
    /\ pc = "StartBlock"
    /\ IF options.StartBlock
       THEN \E err \in Outcomes :
                /\ Invoke(Event("StartBlock", blockNum, "", NoPacket, FALSE, err))
                /\ IF err # Nil THEN Return(err) ELSE pc' = "SendPacket" /\ UNCHANGED caller
       ELSE /\ NotInvoked
            /\ pc' = "SendPacket" /\ UNCHANGED caller
    /\ UNCHANGED <<kindVars, gen, enc, blockNum, options, data, idx, pending, applied>>

\* A SendPacket that hands an update the listener rejected on to ApplyUpdate.
SendPacketAppliesRejected ==
    /\ pc = "SendPacket"
    /\ idx <= Len(data)
    /\ \E err \in Outcomes :
          /\ Invoke(Event("SendPacket", 0, "", data[idx], FALSE, err))
          /\ IF data[idx].type = "ObjectUpdateData"
             THEN pc' = "ApplyUpdate" /\ UNCHANGED <<idx, caller>>
             ELSE IF err # Nil THEN Return(err) /\ UNCHANGED idx
                  ELSE idx' = idx + 1 /\ UNCHANGED <<pc, caller>>
    /\ UNCHANGED <<kindVars, gen, enc, blockNum, options, data, pending, applied>>

\* A SendPacket whose error is dropped: the loop goes on as after nil.
SendPacketIgnoresError ==
    /\ pc = "SendPacket"
    /\ idx <= Len(data)
    /\ \E err \in Outcomes :
          /\ Invoke(Event("SendPacket", 0, "", data[idx], FALSE, err))
          /\ IF data[idx].type = "ObjectUpdateData"
             THEN pc' = "ApplyUpdate" /\ UNCHANGED <<idx, caller>>
             ELSE idx' = idx + 1 /\ UNCHANGED <<pc, caller>>
    /\ UNCHANGED <<kindVars, gen, enc, blockNum, options, data, pending, applied>>

\* err := a.options.Listener.SendPacket(packet); if err != nil { return err }
SendPacket ==
    /\ pc = "SendPacket"
    /\ idx <= Len(data)
    /\ \E err \in Outcomes :
          /\ Invoke(Event("SendPacket", 0, "", data[idx], FALSE, err))
          /\ IF err # Nil THEN Return(err) /\ UNCHANGED idx
             ELSE IF data[idx].type = "ObjectUpdateData"
                  THEN pc' = "ApplyUpdate" /\ UNCHANGED <<idx, caller>>
                  ELSE idx' = idx + 1 /\ UNCHANGED <<pc, caller>>
    /\ UNCHANGED <<kindVars, gen, enc, blockNum, options, data, pending, applied>>

\* An ApplyUpdate that accepts the update and leaves the state as it was.
ApplyUpdateDropsUpdate ==
    /\ pc = "ApplyUpdate"
    /\ \E err \in Outcomes :
          IF err # Nil
          THEN Return(err) /\ UNCHANGED <<idx, applied>>
          ELSE /\ idx' = idx + 1
               /\ pc' = "SendPacket"
               /\ UNCHANGED <<applied, caller>>
    /\ NotInvoked
    /\ UNCHANGED <<kindVars, gen, enc, blockNum, options, data, pending>>

\* err = a.state.ApplyUpdate(updateData.ModuleName, updateData.Update)
\* The reference state accepts the update or rejects it.
ApplyUpdate ==
    /\ pc = "ApplyUpdate"
    /\ \E err \in Outcomes :
          IF err # Nil
          THEN Return(err) /\ UNCHANGED <<idx, applied>>
          ELSE /\ applied' = Append(applied, data[idx])
               /\ idx' = idx + 1
               /\ pc' = "SendPacket"
               /\ UNCHANGED caller
    /\ NotInvoked
    /\ UNCHANGED <<kindVars, gen, enc, blockNum, options, data, pending>>

CommitNeverInvoked ==
    /\ pc = "SendPacket"
    /\ idx > Len(data)
    /\ NotInvoked
    /\ Return(Nil)
    /\ UNCHANGED <<kindVars, gen, enc, blockNum, options, data, idx, pending, applied>>

\* if f := a.options.Listener.Commit; f != nil { ... }; return nil
Commit ==
    /\ pc = "SendPacket"
    /\ idx > Len(data)
    /\ IF options.Commit
       THEN \E err \in Outcomes :
                /\ Invoke(Event("Commit", 0, "", NoPacket, FALSE, err))
                /\ Return(err)
       ELSE /\ NotInvoked
            /\ Return(Nil)
    /\ UNCHANGED <<kindVars, gen, enc, blockNum, options, data, idx, pending, applied>>

SimNext ==
    \/ InitializeEnter
    \/ InitializeCallback
    \/ InitializeModuleData
    \/ InitializeReturn
    \/ ProcessBlockDataEnter
    \/ StartBlock
    \/ SendPacket
    \/ ApplyUpdate
    \/ Commit

---------------------------------------------------------------------------
(* Simulator.BlockDataGenN *)

\* Keys of different Go types: the int64 keys 1 and 2 and the string "1".
IntKey(n) == [type |-> "int64", int |-> n, str |-> ""]
StringKey(str) == [type |-> "string", int |-> 0, str |-> str]
UpdateKeys == {IntKey(1), IntKey(2), StringKey("1")}

\* The %v verb of fmt: a string as it is, an integer in decimal.
FormatV(key) == IF key.type = "string" THEN key.str ELSE ToString(key.int)

\* fmt.Sprintf("%s:%v", update.ModuleName, update.Update.Key)
UpdateSetKey(update) == update.module \o ":" \o FormatV(update.key)

\* a.state.UpdateGen(): an update of some object of some module.
UpdateGen == {ObjectUpdateData(m, key) : m \in Modules, key \in UpdateKeys}

NoUpdate == [type |-> "none", module |-> "", key |-> IntKey(0)]

ExistingNever(update, updateSet) == FALSE

\* _, existing := updateSet[fmt.Sprintf(...)]
Existing(update, updateSet) == UpdateSetKey(update) \in updateSet

\* No generator has been made.
GenIdle ==
    gen = [pc |-> "idle", maxUpdatesPerBlock |-> 0, numUpdates |-> 0, i |-> 0,
           packets |-> <<>>, updateSet |-> {}, update |-> NoUpdate]

\* numUpdatesGen := rapid.IntRange(1, maxUpdatesPerBlock), which panics when
\* the range is empty; return rapid.Custom(...)
BlockDataGenN ==
    /\ gen.pc = "idle"
    /\ \E maxUpdatesPerBlock \in 0 .. MaxUpdatesPerBlock :
          gen' = [gen EXCEPT !.pc = IF maxUpdatesPerBlock < 1 THEN "panic" ELSE "generator",
                             !.maxUpdatesPerBlock = maxUpdatesPerBlock]
    /\ UNCHANGED <<kindVars, simVars, enc>>

\* A draw from the generator starts: var packets BlockData;
\* updateSet := map[string]bool{}; numUpdates := numUpdatesGen.Draw(t, "numUpdates")
DrawNumUpdates ==
    /\ gen.pc \in {"generator", "returned"}
    /\ \E numUpdates \in 1 .. gen.maxUpdatesPerBlock :
          gen' = [gen EXCEPT !.pc = "loop", !.numUpdates = numUpdates, !.i = 0,
                             !.packets = <<>>, !.updateSet = {}, !.update = NoUpdate]
    /\ UNCHANGED <<kindVars, simVars, enc>>

\* for i := 0; i < numUpdates; i++ { update := updateGen.Draw(...): the
\* filtered generator draws from a.state.UpdateGen()
DrawUpdate ==
    /\ gen.pc = "loop"
    /\ gen.i < gen.numUpdates
    /\ \E update \in UpdateGen :
          gen' = [gen EXCEPT !.pc = "Filter", !.update = update]
    /\ UNCHANGED <<kindVars, simVars, enc>>

\* The filter rejects the update and the filtered generator draws again.
FilterRedraws ==
    /\ gen.pc = "Filter"
    /\ Existing(gen.update, gen.updateSet)
    /\ gen' = [gen EXCEPT !.pc = "loop", !.update = NoUpdate]
    /\ UNCHANGED <<kindVars, simVars, enc>>

\* The filter rejects the update and the filtered generator gives up: the
\* draw is abandoned and no BlockData is produced.
FilterGivesUp ==
    /\ gen.pc = "Filter"
    /\ Existing(gen.update, gen.updateSet)
    /\ gen' = [gen EXCEPT !.pc = "invalid"]
    /\ UNCHANGED <<kindVars, simVars, enc>>

\* The filter lets the update through:
\* updateSet[fmt.Sprintf(...)] = true; packets = append(packets, update)
AppendUpdate ==
    /\ gen.pc = "Filter"
    /\ ~Existing(gen.update, gen.updateSet)
    /\ gen' = [gen EXCEPT !.pc = "loop", !.i = gen.i + 1,
                          !.updateSet = gen.updateSet \cup {UpdateSetKey(gen.update)},
                          !.packets = Append(gen.packets, gen.update),
                          !.update = NoUpdate]
    /\ UNCHANGED <<kindVars, simVars, enc>>

\* return packets
ReturnPackets ==
    /\ gen.pc = "loop"
    /\ gen.i >= gen.numUpdates
    /\ gen' = [gen EXCEPT !.pc = "returned"]
    /\ UNCHANGED <<kindVars, simVars, enc>>

\* updateGen.Draw draws an update that the filter lets through.
FreshDraw ==
    /\ DrawUpdate
    /\ ~Existing(gen'.update, gen.updateSet)

GenNext ==
    \/ BlockDataGenN
    \/ DrawNumUpdates
    \/ DrawUpdate
    \/ FilterRedraws
    \/ FilterGivesUp
    \/ AppendUpdate
    \/ ReturnPackets

---------------------------------------------------------------------------
(* Key binary encoding of the fixed-width integer kinds *)

SignedKinds == {Int8Kind, Int16Kind, Int32Kind, Int64Kind}
UnsignedKinds == {Uint8Kind, Uint16Kind, Uint32Kind, Uint64Kind}
IntegerKinds == SignedKinds \cup UnsignedKinds

\* The width in bytes that the Key Binary Encoding of the kind states.
KeyWidth(k) ==
    CASE k \in {Int8Kind, Uint8Kind} -> 1
      [] k \in {Int16Kind, Uint16Kind} -> 2
      [] k \in {Int32Kind, Uint32Kind} -> 4
      [] k \in {Int64Kind, Uint64Kind} -> 8

\* An integer value is held as limbs of 16 bits, most significant first:
\* its value is the sum of limb[n] * 65536^(Len - n).  The first limb carries
\* the sign, the others are in 0 .. 65535.  An 8-bit or 16-bit value is its
\* own single limb.
Limb == 65536
Limbs(k) == IF KeyWidth(k) = 1 THEN 1 ELSE KeyWidth(k) \div 2

\* a < b for two values of the same width.
Less(a, b) ==
    \E n \in 1 .. Len(a) :
        /\ a[n] < b[n]
        /\ \A m \in 1 .. n - 1 : a[m] = b[m]

\* The big-endian bytes of an unsigned number below 256^width, width 1 or 2.
BigEndian(n, width) == IF width = 1 THEN <<n>> ELSE <<n \div 256, n % 256>>

\* The two's complement, as an unsigned number, of a value in a first limb
\* of the given width in bytes.
TwosComplement(n, width) == IF n < 0 THEN n + (IF width = 1 THEN 256 ELSE Limb) ELSE n

\* The first bit of the first byte inverted.
InvertFirstBit(bytes) ==
    [bytes EXCEPT ![1] = IF bytes[1] >= 128 THEN bytes[1] - 128 ELSE bytes[1] + 128]

RECURSIVE Flatten(_)
Flatten(seqs) == IF seqs = <<>> THEN <<>> ELSE Head(seqs) \o Flatten(Tail(seqs))

KeyBinaryEncodingUnflipped(k, v) ==
    LET width == IF KeyWidth(k) = 1 THEN 1 ELSE 2
    IN Flatten([n \in 1 .. Len(v) |->
                   BigEndian(IF n = 1 THEN TwosComplement(v[n], width) ELSE v[n], width)])

\* Signed kinds: two's complement big-endian encoding of KeyWidth(k) bytes
\* with the first bit inverted.  Unsigned kinds: unsigned big-endian
\* encoding of KeyWidth(k) bytes.
KeyBinaryEncoding(k, v) ==
    LET width == IF KeyWidth(k) = 1 THEN 1 ELSE 2
        bytes == Flatten([n \in 1 .. Len(v) |->
                     BigEndian(IF n = 1 THEN TwosComplement(v[n], width) ELSE v[n], width)])
    IN IF k \in SignedKinds THEN InvertFirstBit(bytes) ELSE bytes

\* bytes.Compare: -1, 0 or 1 as x sorts before, with or after y, byte by
\* byte, a proper prefix first.
Compare(x, y) ==
    LET common == IF Len(x) < Len(y) THEN Len(x) ELSE Len(y)
        differ == {n \in 1 .. common : x[n] # y[n]}
    IN IF differ = {}
       THEN (IF Len(x) < Len(y) THEN -1 ELSE IF Len(x) > Len(y) THEN 1 ELSE 0)
       ELSE LET n == CHOOSE d \in differ : \A e \in differ : d <= e
            IN IF x[n] < y[n] THEN -1 ELSE 1

\* First limbs tried: every value of the 8-bit kinds, and for the wider
\* kinds the values around zero, around the byte boundaries and at both
\* ends of the range.
FirstLimbs(k) ==
    CASE k = Int8Kind -> -128 .. 127
      [] k = Uint8Kind -> 0 .. 255
      [] k \in SignedKinds ->
            {-32768, -32767, -257, -256, -255, -129, -128, -1, 0, 1, 127, 128, 255, 256,
             257, 32766, 32767}
      [] OTHER -> {0, 1, 127, 128, 255, 256, 257, 32767, 32768, 65534, 65535}

\* Lower limbs tried.
LowerLimbs == {0, 255, 256, 65535}
EndLimbs == {0, 65535}

\* The values of kind k tried.
IntegerValues(k) ==
    CASE Limbs(k) = 1 -> {<<f>> : f \in FirstLimbs(k)}
      [] Limbs(k) = 2 -> {<<f, l>> : f \in FirstLimbs(k), l \in LowerLimbs}
      [] Limbs(k) = 4 -> {<<f, l, m, n>> : f \in FirstLimbs(k), l \in EndLimbs,
                                           m \in EndLimbs, n \in LowerLimbs}

NoKey == [pc |-> "idle", k |-> InvalidKind, a |-> <<>>, b |-> <<>>,
          keyA |-> <<>>, keyB |-> <<>>, cmp |-> 0]

\* No key is encoded.
KeyIdle == enc = NoKey

KeyInit ==
    \E k \in IntegerKinds :
        \E a \in IntegerValues(k), b \in IntegerValues(k) :
            enc = [NoKey EXCEPT !.pc = "values", !.k = k, !.a = a, !.b = b]

\* Both values are encoded as terminal key fields and the keys compared.
EncodeKeys ==
    /\ enc.pc = "values"
    /\ enc' = [enc EXCEPT !.pc = "encoded",
                          !.keyA = KeyBinaryEncoding(enc.k, enc.a),
                          !.keyB = KeyBinaryEncoding(enc.k, enc.b),
                          !.cmp = Compare(KeyBinaryEncoding(enc.k, enc.a),
                                          KeyBinaryEncoding(enc.k, enc.b))]
    /\ UNCHANGED <<kindVars, simVars, gen>>

KeyNext == EncodeKeys

---------------------------------------------------------------------------
(* Specifications *)

\* The Simulator, called in any order by its caller.
Init == SimInit /\ KindIdle /\ GenIdle /\ KeyIdle
Next == SimNext
Spec == Init /\ [][Next]_vars

\* The Kind functions, called in any order on any Kind.
InitKind == KindInit /\ SimIdle /\ GenIdle /\ KeyIdle
NextKind == KindNext
SpecKind == InitKind /\ [][NextKind]_vars

\* The block generator, made once and drawn from again and again.
InitGen == GenIdle /\ SimIdle /\ KindIdle /\ KeyIdle
NextGen == GenNext
SpecGen == InitGen /\ [][NextGen]_vars

\* The block generator under fair random draws: a started draw keeps
\* running, and an update that the filter lets through is drawn sooner or
\* later whenever one can be drawn again and again.
SpecGenFair ==
    /\ InitGen
    /\ [][NextGen]_vars
    /\ WF_vars(DrawUpdate)
    /\ SF_vars(FreshDraw)
    /\ WF_vars(FilterRedraws \/ FilterGivesUp)
    /\ WF_vars(AppendUpdate)
    /\ WF_vars(ReturnPackets)

\* The key binary encoding of the fixed-width integer kinds, applied to two
\* values of one kind.
InitKey == KeyInit /\ SimIdle /\ KindIdle /\ GenIdle
NextKey == KeyNext
SpecKey == InitKey /\ [][NextKey]_vars

---------------------------------------------------------------------------
(* Properties of the Kind registry, checked under SpecKind *)

Implemented == (InvalidKind + 1) .. MAX_VALID_KIND

\* C1: Kind.Validate returns an error for identifier 0 and for every
\* identifier greater than MAX_VALID_KIND (JSONKind), the unimplemented
\* UIntNKind, IntNKind, StructKind, OneOfKind and ListKind included, and nil
\* for every identifier k with 0 < k <= MAX_VALID_KIND.
ValidateRejectsExactlyOutOfRange ==
    call.op = "Validate" =>
        /\ (call.k = 0 \/ call.k > JSONKind) => call.err # Nil
        /\ call.k \in {UIntNKind, IntNKind, StructKind, OneOfKind, ListKind} => call.err # Nil
        /\ (0 < call.k /\ call.k <= JSONKind) => call.err = Nil

ValidateRejectedListKind ==
    call.op = "Validate" /\ call.k = ListKind /\ call.err # Nil

\* C2: the name <-> identifier mapping is a bijection between the implemented
\* kinds and their names: no two implemented kinds share a name, the table
\* has exactly MAX_VALID_KIND entries, each the name String renders for the
\* implemented kind it maps to (none an "invalid(n)" placeholder), every
\* implemented kind survives MarshalJSON then UnmarshalJSON, and every name
\* UnmarshalJSON accepts is String(k) of the implemented kind k it stores.
KindNamesBijective ==
    /\ (call.op = "String" /\ call.k \in Implemented) =>
          \A k \in Implemented \ {call.k} : String(k) # call.str
    /\ call.op = "UnmarshalJSON" =>
          /\ Cardinality(DOMAIN kindStrings) = MAX_VALID_KIND
          /\ \A n \in DOMAIN kindStrings :
                /\ kindStrings[n] \in Implemented
                /\ String(kindStrings[n]) = n
                /\ n \notin {String(k) : k \in KindInputs \ Implemented}
          /\ \A k \in Implemented :
                (MarshalJSON(k).err = Nil /\ call.data = MarshalJSON(k).out)
                    => (call.err = Nil /\ t = k)
          /\ call.err = Nil =>
                /\ call.data.tok = "string"
                /\ t \in Implemented
                /\ String(t) = call.data.str

DurationNameParsedBack ==
    /\ call.op = "UnmarshalJSON"
    /\ call.data = MarshalJSON(DurationKind).out
    /\ call.k = TimeKind
    /\ call.err = Nil
    /\ t = DurationKind

\* The canonical lowercase names of the implemented kinds.
CanonicalNames ==
    {"string", "bytes", "int8", "uint8", "int16", "uint16", "int32", "uint32", "int64",
     "uint64", "integer", "decimal", "bool", "time", "duration", "float32", "float64",
     "address", "enum", "json"}

\* C3: Kind.UnmarshalJSON fails for every JSON string that is not the
\* canonical name of an implemented kind and for every JSON input that is not
\* a string, and on failure the target Kind keeps the value it had.
UnmarshalJSONRejectsAndKeepsTarget ==
    call.op = "UnmarshalJSON" =>
        /\ (call.data.tok # "string" \/ call.data.str \notin CanonicalNames) => call.err # Nil
        /\ call.err # Nil => t = call.k

PlaceholderNameRejected ==
    /\ call.op = "UnmarshalJSON"
    /\ call.data = JSONString("invalid(0)")
    /\ call.k = Int64Kind
    /\ call.err # Nil
    /\ t = Int64Kind

\* The host type each implemented kind declares as its Go encoding.
DeclaredHostType(k) ==
    CASE k \in {StringKind, IntegerStringKind, DecimalStringKind, EnumKind} -> "string"
      [] k \in {BytesKind, AddressKind} -> "[]byte"
      [] k = Int8Kind -> "int8"
      [] k = Uint8Kind -> "uint8"
      [] k = Int16Kind -> "int16"
      [] k = Uint16Kind -> "uint16"
      [] k = Int32Kind -> "int32"
      [] k = Uint32Kind -> "uint32"
      [] k = Int64Kind -> "int64"
      [] k = Uint64Kind -> "uint64"
      [] k = Float32Kind -> "float32"
      [] k = Float64Kind -> "float64"
      [] k = BoolKind -> "bool"
      [] k = TimeKind -> "time.Time"
      [] k = DurationKind -> "time.Duration"
      [] k = JSONKind -> "json.RawMessage"

\* C4: for an implemented kind, ValidateValueType succeeds exactly when the
\* host type of the value is the one declared for the kind and fails with a
\* mismatch error otherwise; for a kind outside (0, MAX_VALID_KIND] it fails
\* for every value; the content of the value never changes the result.
ValidateValueTypeChecksHostTypeOnly ==
    call.op = "ValidateValueType" =>
        /\ call.k \in Implemented =>
              /\ call.err = Nil <=> call.value.type = DeclaredHostType(call.k)
              /\ call.err # Nil => call.err = "expected " \o DeclaredHostType(call.k)
        /\ call.k \notin Implemented => call.err = "invalid type"
        /\ call.err = ValidateValueType(call.k, Val(call.value.type, <<>>))

BytesRejectedForJSONKind ==
    /\ call.op = "ValidateValueType"
    /\ call.k = JSONKind
    /\ call.value = Val("[]byte", <<123, 125>>)
    /\ call.err = "expected json.RawMessage"

\* C5: deep validation is a superset of native-form validation: when
\* ValidateValue succeeds so does ValidateValueType, and for every kind other
\* than StringKind, IntegerStringKind, DecimalStringKind and JSONKind (enum
\* included) ValidateValue succeeds exactly when ValidateValueType does.
DeepValidationExtendsTypeValidation ==
    call.op = "ValidateValue" =>
        /\ call.err = Nil => ValidateValueType(call.k, call.value) = Nil
        /\ call.k \notin {StringKind, IntegerStringKind, DecimalStringKind, JSONKind} =>
              (call.err = Nil <=> ValidateValueType(call.k, call.value) = Nil)

EnumValueLeftUnchecked ==
    /\ call.op = "ValidateValue"
    /\ call.k = EnumKind
    /\ call.value = Val("string", <<0, 255>>)
    /\ call.err = Nil

\* The number of decimal digits of s that follow offset i without a break.
DigitRun(s, i) ==
    CHOOSE n \in 0 .. (Len(s) - i) :
        /\ \A j \in (i + 1) .. (i + n) : s[j] \in 48 .. 57
        /\ i + n = Len(s) \/ s[i + n + 1] \notin 48 .. 57

At(s, i, set) == i <= Len(s) /\ s[i] \in set

\* Optional '-', then 1 to 100 decimal digits.
IsIntegerText(s) ==
    LET neg == IF At(s, 1, {45}) THEN 1 ELSE 0
        n == DigitRun(s, neg)
    IN  n \in 1 .. 100 /\ neg + n = Len(s)

\* Optional '-', 1 to 50 digits, optional '.' plus 1 to 50 digits, optional
\* e/E exponent with optional sign and 1 to 2 digits.
IsDecimalText(s) ==
    LET neg == IF At(s, 1, {45}) THEN 1 ELSE 0
        n == DigitRun(s, neg)
        afterInt == neg + n
        f == IF At(s, afterInt + 1, {46}) THEN DigitRun(s, afterInt + 1) ELSE 0
        afterFrac == IF f > 0 THEN afterInt + 1 + f ELSE afterInt
        hasExp == At(s, afterFrac + 1, {69, 101})
        sign == IF hasExp /\ At(s, afterFrac + 2, {45, 43}) THEN 1 ELSE 0
        e == IF hasExp THEN DigitRun(s, afterFrac + 1 + sign) ELSE 0
        afterExp == IF hasExp THEN afterFrac + 1 + sign + e ELSE afterFrac
    IN  /\ n \in 1 .. 50
        /\ f \in 0 .. 50
        /\ hasExp => e \in 1 .. 2
        /\ afterExp = Len(s)

\* C6: ValidateValue accepts a string for IntegerStringKind exactly when it
\* matches the integer grammar and for DecimalStringKind exactly when it
\* matches the decimal grammar; "0", "-123", a 100-digit string and "01" are
\* accepted as integers, and "", "-", "+1" and a 101-digit string are not.
NumberStringsFollowGrammar ==
    (call.op = "ValidateValue" /\ call.value.type = "string") =>
        /\ call.k = IntegerStringKind =>
              /\ call.err = Nil <=> IsIntegerText(call.value.v)
              /\ call.value.v \in {<<48>>, <<45, 49, 50, 51>>, <<48, 49>>, Run(48, 100)}
                    => call.err = Nil
              /\ call.value.v \in {<<>>, <<45>>, <<43, 49>>, Run(48, 101)}
                    => call.err # Nil
        /\ call.k = DecimalStringKind =>
              (call.err = Nil <=> IsDecimalText(call.value.v))

HundredDigitIntegerAccepted ==
    /\ call.op = "ValidateValue"
    /\ call.k = IntegerStringKind
    /\ call.value = Val("string", Run(48, 100))
    /\ call.err = Nil

\* The UTF-8 encoding of a code point (shortest form).
EncodeRune(cp) ==
    CASE cp < 128 -> <<cp>>
      [] cp \in 128 .. 2047 -> <<192 + (cp \div 64), 128 + (cp % 64)>>
      [] cp \in 2048 .. 65535 ->
            <<224 + (cp \div 4096), 128 + ((cp \div 64) % 64), 128 + (cp % 64)>>
      [] OTHER ->
            <<240 + (cp \div 262144), 128 + ((cp \div 4096) % 64),
              128 + ((cp \div 64) % 64), 128 + (cp % 64)>>

\* A Unicode scalar value: a code point that is no surrogate.
IsScalarValue(cp) == cp \in 0 .. 1114111 /\ cp \notin 55296 .. 57343

\* Whether the n bytes of s from s[i] on are the encoding of a scalar value.
EncodingAt(s, i, n) ==
    /\ i >= 1
    /\ i + n - 1 <= Len(s)
    /\ LET b == SubSeq(s, i, i + n - 1) IN
       /\ \A j \in 1 .. n : b[j] \in 0 .. 255
       /\ IsScalarValue(RuneOf(b))
       /\ EncodeRune(RuneOf(b)) = b

\* Valid UTF-8: every byte begins the encoding of a scalar value or lies
\* inside one.
WellFormedUTF8(s) ==
    \A i \in 1 .. Len(s) :
        \/ \E n \in 1 .. 4 : EncodingAt(s, i, n)
        \/ \E back \in 1 .. 3, n \in 2 .. 4 : n > back /\ EncodingAt(s, i - back, n)

\* C7: ValidateValue for StringKind accepts a string exactly when it is valid
\* UTF-8 and holds no NUL at any position, although ValidateValueType accepts
\* every string.
StringKindNeedsUTF8WithoutNUL ==
    (call.op = "ValidateValue" /\ call.k = StringKind /\ call.value.type = "string") =>
        /\ call.err = Nil <=>
              /\ WellFormedUTF8(call.value.v)
              /\ \A i \in 1 .. Len(call.value.v) : call.value.v[i] # 0
        /\ ValidateValueType(call.k, call.value) = Nil

EmbeddedNULRejected ==
    /\ call.op = "ValidateValue"
    /\ call.k = StringKind
    /\ call.value = Val("string", <<195, 169, 0, 226, 130, 172>>)
    /\ call.err # Nil

KindForGoValueInfersSimplestKind ==
    call.op = "KindForGoValue" =>
        /\ call.kind \notin {IntegerStringKind, DecimalStringKind, AddressKind, EnumKind}
        /\ call.kind = InvalidKind <=>
              call.value.type \notin
                  {"string", "[]byte", "int8", "uint8", "int16", "uint16", "int32",
                   "uint32", "int64", "uint64", "float32", "float64", "bool",
                   "time.Time", "time.Duration", "json.RawMessage"}
        /\ call.kind # InvalidKind =>
              /\ Validate(call.kind) = Nil
              /\ ValidateValueType(call.kind, call.value) = Nil

BytesInferredAsBytesKind ==
    /\ call.op = "KindForGoValue"
    /\ call.value = Val("[]byte", <<0>>)
    /\ call.kind = BytesKind

---------------------------------------------------------------------------
(* Properties of the Simulator, checked under Spec *)

\* Whether the session state machine
\*   Uninitialized -Initialize-> Ready -StartBlock(h)-> InBlock(h) -Commit-> Ready
\* has a transition for the callback in the state it arrived in, module
\* announcements being due before the first StartBlock and packets inside an
\* open block.
FollowsSessionStateMachine(ev) ==
    CASE ev.cb = "Initialize" -> ev.session = "Uninitialized"
      [] ev.cb = "InitializeModuleData" -> ev.session = "Ready" /\ ~ev.started
      [] ev.cb = "StartBlock" -> ev.session = "Ready"
      [] ev.cb = "SendPacket" -> ev.session = "InBlock"
      [] ev.cb = "Commit" -> ev.session = "InBlock"

\* C10 as stated: for any sequence of calls to Initialize and
\* ProcessBlockData, failed calls included, every callback the listener
\* observes follows the session state machine: Initialize at most once,
\* every InitializeModuleData before the first StartBlock, StartBlock only in
\* Ready, no packet outside an open block.
AnyCallSequenceFollowsSession ==
    \A i \in 1 .. Len(observed) : FollowsSessionStateMachine(observed[i])

\* C10, amended: when the caller calls Initialize once and first, then only
\* ProcessBlockData, and makes no call after a call returned an error, and
\* the listener sets its Initialize, StartBlock and Commit callbacks, every
\* callback the listener observes follows the session state machine.
ContractCallerFollowsSession ==
    (caller.disciplined /\ options.Initialize /\ options.StartBlock /\ options.Commit) =>
        \A i \in 1 .. Len(observed) : FollowsSessionStateMachine(observed[i])

SecondBlockCommitted ==
    /\ caller.disciplined
    /\ options.Initialize /\ options.InitializeModuleData
    /\ options.StartBlock /\ options.Commit
    /\ pc = "idle"
    /\ caller.op = "ProcessBlockData"
    /\ caller.err = Nil
    /\ blockNum = 2
    /\ Len(observed) = 4
    /\ observed[4].cb = "Commit"

---------------------------------------------------------------------------
(* Properties of ProcessBlockData, checked under Spec *)

\* The ProcessBlockData call under way, or the one that just returned.
InProcessBlockData == caller.op = "ProcessBlockData"
ProcessBlockDataReturned == InProcessBlockData /\ pc = "idle"

\* What the listener was called with, in order.
Seen ==
    [i \in 1 .. Len(observed) |->
        [cb |-> observed[i].cb, height |-> observed[i].height, packet |-> observed[i].packet]]

Callback(cb, height, packet) == [cb |-> cb, height |-> height, packet |-> packet]

\* StartBlock(h), every packet of d in slice order, Commit; a callback the
\* listener left unset is missing.
WholeBlock(h, d, start, commit) ==
    (IF start THEN <<Callback("StartBlock", h, NoPacket)>> ELSE <<>>)
        \o [i \in 1 .. Len(d) |-> Callback("SendPacket", 0, d[i])]
        \o (IF commit THEN <<Callback("Commit", 0, NoPacket)>> ELSE <<>>)

IsUpdate(p) == p.type = "ObjectUpdateData"
UpdatesOf(d) == SelectSeq(d, IsUpdate)

NoCallbackError == \A i \in 1 .. Len(observed) : observed[i].err = Nil

\* C11 as stated: in a ProcessBlockData call in which no callback returns an
\* error, the listener observes exactly one StartBlock, then every packet of
\* the block exactly once in slice order, then exactly one Commit and nothing
\* after it, and the reference state has applied exactly the
\* ObjectUpdateData packets of the block, in the same order.
NoCallbackErrorDeliversWholeBlock ==
    (ProcessBlockDataReturned /\ NoCallbackError) =>
        /\ Seen = WholeBlock(blockNum, data, TRUE, TRUE)
        /\ applied = UpdatesOf(data)

\* C11, amended: in a ProcessBlockData call that returns nil (no listener
\* callback and no ApplyUpdate of the reference state returned an error),
\* the listener observes one StartBlock if it set that callback, then every
\* packet of the block exactly once in slice order, then one Commit if it
\* set that callback and nothing after it, and the reference state has
\* applied exactly the ObjectUpdateData packets of the block, in the same
\* order.
NilReturnDeliversWholeBlock ==
    (ProcessBlockDataReturned /\ caller.err = Nil) =>
        /\ Seen = WholeBlock(blockNum, data, options.StartBlock, options.Commit)
        /\ applied = UpdatesOf(data)

MixedBlockDelivered ==
    /\ ProcessBlockDataReturned
    /\ caller.err = Nil
    /\ options.StartBlock /\ options.Commit
    /\ data = <<EventData, ObjectUpdateData("bank", 1)>>
    /\ Len(observed) = 4
    /\ applied = <<ObjectUpdateData("bank", 1)>>

IsSendPacket(ev) == ev.cb = "SendPacket"
\* How many packets of the block the listener was sent in this call.
Sent == Len(SelectSeq(observed, IsSendPacket))

\* C12: when a listener callback (StartBlock, SendPacket or Commit) returns
\* an error during ProcessBlockData, the call has returned that error, the
\* failed callback is the last one the listener observes in that call (so no
\* Commit follows a failed StartBlock or SendPacket), and the reference state
\* has applied only updates of packets before the one whose SendPacket failed.
CallbackErrorHaltsProcessBlockData ==
    InProcessBlockData =>
        \A i \in 1 .. Len(observed) :
            observed[i].err # Nil =>
                /\ i = Len(observed)
                /\ pc = "idle"
                /\ caller.err = observed[i].err
                /\ observed[i].cb = "StartBlock" => applied = <<>>
                /\ observed[i].cb = "SendPacket" =>
                       applied = UpdatesOf(SubSeq(data, 1, Sent - 1))

SecondSendPacketFailed ==
    /\ ProcessBlockDataReturned
    /\ options.StartBlock
    /\ data = <<ObjectUpdateData("bank", 1), ObjectUpdateData("staking", 1)>>
    /\ Len(observed) = 3
    /\ observed[3].cb = "SendPacket"
    /\ observed[3].err # Nil
    /\ applied = <<ObjectUpdateData("bank", 1)>>
    /\ caller.err # Nil

\* C13: when a listener callback returns an error during ProcessBlockData,
\* blockNum after the failed call equals its value before the call.
BlockNumKeptOnCallbackError ==
    (ProcessBlockDataReturned /\ ~NoCallbackError) => blockNum = caller.blockNum

\* This step invokes the listener's StartBlock.
StartBlockInvoked ==
    /\ Len(observed') = Len(observed) + 1
    /\ observed'[Len(observed')].cb = "StartBlock"

\* C14: across any sequence of ProcessBlockData calls, failed ones included,
\* the height passed to each StartBlock is greater than the height passed to
\* the StartBlock before it (lastHeight), and the first one is passed 1.
StartBlockHeightsIncrease ==
    [][StartBlockInvoked =>
          /\ observed'[Len(observed')].height > lastHeight
          /\ lastHeight = 0 => observed'[Len(observed')].height = 1]_vars

ThirdStartBlockFailed ==
    /\ InProcessBlockData
    /\ ~caller.disciplined
    /\ blockNum = 3
    /\ lastHeight = 3
    /\ Len(observed) = 1
    /\ observed[1].cb = "StartBlock"
    /\ observed[1].err # Nil

\* The listener was sent update packets i and j of this call for the same
\* (module, key).
SameTarget(i, j) ==
    /\ IsSendPacket(observed[i]) /\ IsUpdate(observed[i].packet)
    /\ IsSendPacket(observed[j]) /\ IsUpdate(observed[j].packet)
    /\ observed[i].packet.module = observed[j].packet.module
    /\ observed[i].packet.key = observed[j].packet.key

\* C15: ProcessBlockData never delivers two ObjectUpdateData packets with the
\* same (module, key) to the listener between one StartBlock and its Commit.
NoDuplicateTargetDelivered ==
    InProcessBlockData =>
        \A i, j \in 1 .. Len(observed) : i < j => ~SameTarget(i, j)

InInitialize == caller.op = "Initialize"
InitializeReturned == InInitialize /\ pc = "idle"

IsInitializeModuleData(ev) == ev.cb = "InitializeModuleData"
\* The module announcements the listener observed in this call, in order.
Announcements == SelectSeq(observed, IsInitializeModuleData)
Announced == {Announcements[n].module : n \in 1 .. Len(Announcements)}

\* The updates whose SendPacket returned nil in this call, in order.
IsAcceptedUpdate(ev) == IsSendPacket(ev) /\ IsUpdate(ev.packet) /\ ev.err = Nil
Accepted ==
    LET evs == SelectSeq(observed, IsAcceptedUpdate)
    IN [n \in 1 .. Len(evs) |-> evs[n].packet]

\* The call returned an error that no invoked callback returned: the
\* reference state rejected the last update the listener accepted.
RejectedByReferenceState ==
    /\ ProcessBlockDataReturned
    /\ NoCallbackError
    /\ Len(applied) < Len(Accepted)

\* C17: an unset Initialize, InitializeModuleData, StartBlock or Commit is a
\* successful no-op.  A call never returns an error because of an unset
\* callback (only an invoked callback or the reference state make it fail);
\* a ProcessBlockData that returns nil has incremented blockNum, sent every
\* packet, applied every update and invoked exactly those of StartBlock and
\* Commit that are set; an Initialize that returns nil has invoked
\* Initialize if set and, if InitializeModuleData is set, announced every
\* module once.
UnsetCallbacksAreSkipped ==
    /\ (pc = "idle" /\ caller.err # Nil) => (~NoCallbackError \/ RejectedByReferenceState)
    /\ (ProcessBlockDataReturned /\ caller.err = Nil) =>
           /\ blockNum = caller.blockNum + 1
           /\ Seen = WholeBlock(blockNum, data, options.StartBlock, options.Commit)
           /\ applied = UpdatesOf(data)
    /\ (InitializeReturned /\ caller.err = Nil) =>
           /\ Len(observed) = (IF options.Initialize THEN 1 ELSE 0) + Len(Announcements)
           /\ options.Initialize => observed[1].cb = "Initialize"
           /\ Len(Announcements) = (IF options.InitializeModuleData THEN Cardinality(Modules) ELSE 0)
           /\ options.InitializeModuleData => Announced = Modules

BlockWithoutStartBlockCommitted ==
    /\ ProcessBlockDataReturned
    /\ caller.err = Nil
    /\ ~options.StartBlock /\ options.Commit
    /\ data = <<ObjectUpdateData("bank", 1), EventData>>
    /\ Len(observed) = 3
    /\ observed[3].cb = "Commit"
    /\ applied = <<ObjectUpdateData("bank", 1)>>

IsCommit(ev) == ev.cb = "Commit"

\* C20: at every point of a ProcessBlockData call the updates applied to the
\* reference state are a prefix of the updates the listener accepted
\* (SendPacket returned nil), shorter by at most one: the update handed to
\* ApplyUpdate at this moment, or the one the reference state rejected, and
\* then the call has returned an error and no Commit was invoked.
AppliedFollowsAccepted ==
    InProcessBlockData =>
        /\ Len(applied) <= Len(Accepted)
        /\ applied = SubSeq(Accepted, 1, Len(applied))
        /\ Len(Accepted) - Len(applied) <= 1
        /\ Len(applied) < Len(Accepted) =>
               \/ pc = "ApplyUpdate"
               \/ /\ pc = "idle"
                  /\ caller.err # Nil
                  /\ SelectSeq(observed, IsCommit) = <<>>

SecondUpdateRejectedByReferenceState ==
    /\ RejectedByReferenceState
    /\ caller.err # Nil
    /\ Len(Accepted) = 2
    /\ Len(applied) = 1

---------------------------------------------------------------------------
(* Properties of BlockDataGenN, checked under SpecGen *)

\* C16: every BlockData produced by BlockDataGenN(maxUpdatesPerBlock) has a
\* size n with 1 <= n <= maxUpdatesPerBlock, holds exactly n packets, all of
\* them ObjectUpdateData, and their n (module, key) pairs are pairwise
\* distinct.
GeneratedBlockHasDistinctUpdates ==
    gen.pc = "returned" =>
        /\ gen.numUpdates \in 1 .. gen.maxUpdatesPerBlock
        /\ Len(gen.packets) = gen.numUpdates
        /\ \A n \in 1 .. Len(gen.packets) : IsUpdate(gen.packets[n])
        /\ \A n, m \in 1 .. Len(gen.packets) :
               n # m => <<gen.packets[n].module, gen.packets[n].key>>
                           # <<gen.packets[m].module, gen.packets[m].key>>

ThreeUpdatesGenerated ==
    /\ gen.pc = "returned"
    /\ gen.maxUpdatesPerBlock = 3
    /\ Len(gen.packets) = 3
    /\ gen.packets[1].module = gen.packets[2].module

---------------------------------------------------------------------------
(* Properties of the key binary encoding, checked under SpecKey *)

\* C18: for two values a < b of a fixed-width integer kind the terminal key
\* binary encoding of a sorts before that of b, byte by byte; equal values
\* have identical encodings; every key has the width of its kind.
KeyEncodingPreservesOrder ==
    enc.pc = "encoded" =>
        /\ Len(enc.keyA) = KeyWidth(enc.k) /\ Len(enc.keyB) = KeyWidth(enc.k)
        /\ Less(enc.a, enc.b) => enc.cmp = -1
        /\ enc.a = enc.b => enc.keyA = enc.keyB

NegativeSortsBeforePositive ==
    /\ enc.pc = "encoded"
    /\ enc.k = Int64Kind
    /\ enc.a = <<-1, 65535, 65535, 65535>>
    /\ enc.b = <<0, 0, 0, 256>>
    /\ enc.keyA = <<127, 255, 255, 255, 255, 255, 255, 255>>
    /\ enc.keyB = <<128, 0, 0, 0, 0, 0, 1, 0>>
    /\ enc.cmp = -1

---------------------------------------------------------------------------
(* Termination of BlockDataGenN, checked under SpecGenFair *)

\* C21: for every drawn block size, under fair random draws the
\* reject-and-redraw loop of BlockDataGenN eventually collects numUpdates
\* updates with unique (module, key) pairs and returns the block.
GenerationReturnsBlock ==
    (gen.pc = "loop") ~> (gen.pc = "returned" /\ Len(gen.packets) = gen.numUpdates)

====
